---- MODULE Spec2Model ----
(***************************************************************************)
(* Model of ResearchAgent (src/research_agent.py): document ingestion,     *)
(* vector database build / save / load, threshold-filtered question        *)
(* answering and conversation memory.                                      *)
(*                                                                         *)
(* Texts are sequences of paragraphs; every paragraph is longer than the   *)
(* splitter's merge window, so the text splitter emits one chunk per       *)
(* paragraph.  Scores are L2 distances in tenths (0.7 is written 7).       *)
(***************************************************************************)
EXTENDS Integers, Sequences, FiniteSets, TLC

VARIABLES documents,          \* self.documents
          document_metadata,  \* self.document_metadata
          vectordb,           \* self.vectordb
          vector_db_path,     \* self.vector_db_path
          memory,             \* self.memory: the (question, answer) turns
          disk,               \* the index directories on disk
          saved_index,        \* history: the index object each directory was saved from
          last,               \* the last call and its outcome
          pc,                 \* where the caller is: "api" for a client calling the
                              \* methods in any order, else the position in main()
          uncaught            \* the exception that ended main(), "none" otherwise

vars == <<documents, document_metadata, vectordb, vector_db_path, memory,
          disk, saved_index, last, pc, uncaught>>

\* the fields and collaborators of the ResearchAgent object
agent == <<documents, document_metadata, vectordb, vector_db_path, memory,
           disk, saved_index>>

(* ----------------------------- bounds ---------------------------------- *)
MaxChunks == 3      \* cap on len(self.documents)
MaxTurns == 1       \* cap on the number of turns kept in self.memory

(* ------------------------ program constants ---------------------------- *)
DefaultThreshold == 7       \* similarity_threshold: float = 0.7 (in tenths)
DefaultMaxDocs == 5         \* max_docs: int = 5

(* ------------------------- the environment ----------------------------- *)
None == [none |-> TRUE]
NoPath == "None"

\* The document files the session can be pointed at.  "missing.txt" and
\* "missing.pdf" do not exist.
DocPaths == {"d1/a.txt", "d2/a.txt", "empty.txt", "b.pdf",
             "missing.txt", "missing.pdf"}
\* Index directories: "db1" is where indexes are saved; "nodb" never exists.
DbPaths == {"db1", "nodb"}
SavePaths == {"db1"}

Files ==
  [ p \in {"d1/a.txt", "d2/a.txt", "empty.txt", "b.pdf"} |->
      CASE p = "d1/a.txt"  -> [type |-> "text", pages |-> << <<"t0", "t1">> >>]
        [] p = "d2/a.txt"  -> [type |-> "text", pages |-> << <<"t2">> >>]
        [] p = "empty.txt" -> [type |-> "text", pages |-> << <<>> >>]
        [] p = "b.pdf"     -> [type |-> "pdf",  pages |-> << <<"t3">>, <<"", "t0">> >>] ]

Questions == {"q0", "q1"}
\* what the user types at the prompt of the interactive loop
Inputs == Questions \cup {"exit", "Quit", "Q"}
LLMAnswers == {"llm_answer"}
Thresholds == {0, DefaultThreshold}
MaxDocs == {1, DefaultMaxDocs}

path_exists(p) == p \in DOMAIN Files

\* str.lower on the inputs
lower(t) ==
  CASE t = "Quit" -> "quit"
    [] t = "Q"    -> "q"
    [] OTHER      -> t

basename(p) ==
  CASE p = "d1/a.txt"    -> "a.txt"
    [] p = "d2/a.txt"    -> "a.txt"
    [] p = "empty.txt"   -> "empty.txt"
    [] p = "b.pdf"       -> "b.pdf"
    [] p = "missing.txt" -> "missing.txt"
    [] p = "missing.pdf" -> "missing.pdf"

\* HuggingFaceEmbeddings: one fixed vector (here one coordinate) per text.
embed(t) ==
  CASE t = "t0" -> 0
    [] t = "t1" -> 1
    [] t = "t2" -> 3
    [] t = "t3" -> 1
    [] t = "q0" -> 0
    [] t = "q1" -> 4

(* ----------------------------- helpers --------------------------------- *)
Range(s) == {s[i] : i \in 1..Len(s)}

RECURSIVE Concat(_)
Concat(ss) == IF ss = <<>> THEN <<>> ELSE Head(ss) \o Concat(Tail(ss))

\* dict.get(key, default)
get(d, k, default) == IF k \in DOMAIN d THEN d[k] ELSE default

\* d[k] = v on a dict
setitem(d, k, v) == [x \in (DOMAIN d) \cup {k} |-> IF x = k THEN v ELSE d[x]]

\* What the last call did, as its caller and its collaborators saw it: the
\* exception raised ("none" when it returned), the value returned, whether the
\* vector store was searched and what it returned, whether the chain (the
\* language model) ran and on which documents.
Outcome(op, args, raised, result, searched, docs, llm, relevant) ==
  [op |-> op, args |-> args, raised |-> raised, result |-> result,
   searched |-> searched, docs |-> docs, llm |-> llm, relevant |-> relevant]

\* a call that touched neither the vector store nor the chain
Plain(op, args, raised) == Outcome(op, args, raised, None, FALSE, <<>>, FALSE, <<>>)

(* --------------------- the FAISS vector store -------------------------- *)
Document(content, metadata) == [page_content |-> content, metadata |-> metadata]

\* FAISS.from_texts: one vector and one docstore entry per text, in order;
\* index_to_docstore_id maps the position in the index to the docstore id.
from_texts(texts, metadatas) ==
  [index |-> [i \in 1..Len(texts) |-> embed(texts[i])],
   docstore |-> [i \in 1..Len(texts) |-> Document(texts[i], metadatas[i])],
   index_to_docstore_id |-> [i \in 1..Len(texts) |-> i]]

\* squared L2 distance, the score FAISS reports
l2(a, b) == (a - b) * (a - b)

\* index.search: the positions of the k nearest vectors, nearest first
\* (ties by position); fewer than k when the index is smaller.
RECURSIVE nearest(_, _, _, _)
nearest(index, v, k, taken) ==
  LET rest == (1..Len(index)) \ taken IN
  IF k = 0 \/ rest = {} THEN <<>>
  ELSE LET i == CHOOSE x \in rest : \A y \in rest :
                   \/ l2(v, index[x]) < l2(v, index[y])
                   \/ (l2(v, index[x]) = l2(v, index[y]) /\ x <= y)
       IN <<i>> \o nearest(index, v, k - 1, taken \cup {i})

\* FAISS.similarity_search_with_score: (Document, score) pairs
similarity_search_with_score(db, question, k) ==
  LET v == embed(question)
      hits == nearest(db.index, v, k, {})
  IN [j \in 1..Len(hits) |->
        <<db.docstore[db.index_to_docstore_id[hits[j]]], l2(v, db.index[hits[j]])>>]

\* FAISS.save_local: index.faiss holds the vectors, index.pkl the docstore
\* and the position-to-id map.
save_local(db) ==
  [faiss |-> db.index, pkl |-> <<db.docstore, db.index_to_docstore_id>>]

\* mutant: the position-to-id map is rebuilt in the opposite order
load_local_reordered(dir) ==
  [index |-> dir.faiss, docstore |-> dir.pkl[1],
   index_to_docstore_id |->
     [i \in 1..Len(dir.pkl[2]) |-> dir.pkl[2][Len(dir.pkl[2]) + 1 - i]]]

\* FAISS.load_local
load_local(dir) ==
  [index |-> dir.faiss, docstore |-> dir.pkl[1], index_to_docstore_id |-> dir.pkl[2]]

(* ------------------------- text processing ----------------------------- *)
\* RecursiveCharacterTextSplitter.split_text: one chunk per paragraph,
\* blank paragraphs dropped
split_text(text) == SelectSeq(text, LAMBDA para : para # "")

\* _split_and_add_text: the documents list after the chunks are appended
_split_and_add_text(docs, text, source) ==
  LET chunks == split_text(text) IN
  docs \o [i \in 1..Len(chunks) |->
             [content |-> chunks[i],
              metadata |-> [source |-> source, chunk |-> i - 1]]]

(* ------------------------------ Init ----------------------------------- *)
\* An index directory left by an earlier session that had ingested d1/a.txt.
PriorIndex ==
  from_texts(<<"t0", "t1">>,
             <<[source |-> "a.txt", chunk |-> 0], [source |-> "a.txt", chunk |-> 1]>>)

\* A client constructs the agent with or without vector_db_path; main()
\* constructs ResearchAgent() with the defaults.  Either may find the index
\* directory of an earlier session.
Init ==
  /\ documents = <<>>
  /\ document_metadata = <<>>
  /\ vectordb = None
  /\ memory = <<>>
  /\ last = Plain("__init__", <<>>, "none")
  /\ uncaught = "none"
  /\ \/ pc = "api" /\ vector_db_path \in {NoPath, "db1"}
     \/ pc = "main" /\ vector_db_path = NoPath
  /\ \/ disk = <<>> /\ saved_index = <<>>
     \/ /\ disk = setitem(<<>>, "db1", save_local(PriorIndex))
        /\ saved_index = setitem(<<>>, "db1", PriorIndex)

(* ----------------------------- process_pdf ----------------------------- *)
process_pdf(pdf_path) ==
  /\ UNCHANGED <<vectordb, vector_db_path, memory, disk, saved_index>>
  /\ IF ~path_exists(pdf_path)
     THEN /\ last' = Plain("process_pdf", <<pdf_path>>, "FileNotFoundError")
          /\ UNCHANGED <<documents, document_metadata>>
     ELSE IF Files[pdf_path].type # "pdf"
     THEN \* PdfReader rejects a file that is no PDF; caught, logged, re-raised
          /\ last' = Plain("process_pdf", <<pdf_path>>, "PdfReadError")
          /\ UNCHANGED <<documents, document_metadata>>
     ELSE LET pages == Files[pdf_path].pages
              text == Concat(pages)
              file_name == basename(pdf_path)
          IN /\ Len(documents) + Len(split_text(text)) <= MaxChunks
             /\ document_metadata' =
                  setitem(document_metadata, file_name,
                          [path |-> pdf_path, type |-> "pdf", pages |-> Len(pages)])
             /\ documents' = _split_and_add_text(documents, text, file_name)
             /\ last' = Plain("process_pdf", <<pdf_path>>, "none")

\* mutant: the metadata entry is keyed by the path, not by the file name
process_text_file_keyed_by_path(text_path) ==
  /\ UNCHANGED <<vectordb, vector_db_path, memory, disk, saved_index>>
  /\ IF ~path_exists(text_path)
     THEN /\ last' = Plain("process_text_file", <<text_path>>, "FileNotFoundError")
          /\ UNCHANGED <<documents, document_metadata>>
     ELSE LET text == Concat(Files[text_path].pages)
              file_name == basename(text_path)
          IN /\ Files[text_path].type = "text"
             /\ Len(documents) + Len(split_text(text)) <= MaxChunks
             /\ document_metadata' =
                  setitem(document_metadata, text_path,
                          [path |-> text_path, type |-> "text"])
             /\ documents' = _split_and_add_text(documents, text, file_name)
             /\ last' = Plain("process_text_file", <<text_path>>, "none")

(* -------------------------- process_text_file -------------------------- *)
\* Called on text files and on missing paths only.
process_text_file(text_path) ==
  /\ UNCHANGED <<vectordb, vector_db_path, memory, disk, saved_index>>
  /\ IF ~path_exists(text_path)
     THEN /\ last' = Plain("process_text_file", <<text_path>>, "FileNotFoundError")
          /\ UNCHANGED <<documents, document_metadata>>
     ELSE LET text == Concat(Files[text_path].pages)
              file_name == basename(text_path)
          IN /\ Files[text_path].type = "text"
             /\ Len(documents) + Len(split_text(text)) <= MaxChunks
             /\ document_metadata' =
                  setitem(document_metadata, file_name,
                          [path |-> text_path, type |-> "text"])
             /\ documents' = _split_and_add_text(documents, text, file_name)
             /\ last' = Plain("process_text_file", <<text_path>>, "none")

(* --------------------------- get_document_info ------------------------- *)
\* the dictionaries of the returned list, by document name
get_document_info(metadata) ==
  [name \in DOMAIN metadata |->
     [name |-> name, path |-> metadata[name].path, type |-> metadata[name].type,
      pages |-> get(metadata[name], "pages", None)]]

(* ------------------------- save_vector_database ------------------------ *)
\* The directory tree after save_vector_database(path)
saved(db, dsk, path) ==
  IF db = None THEN dsk ELSE setitem(dsk, path, save_local(db))

save_vector_database(path) ==
  /\ disk' = saved(vectordb, disk, path)
  /\ saved_index' = IF vectordb = None THEN saved_index
                    ELSE setitem(saved_index, path, vectordb)
  /\ last' = Plain("save_vector_database", <<path>>, "none")
  /\ UNCHANGED <<documents, document_metadata, vectordb, vector_db_path, memory>>

(* ------------------------ build_vector_database ------------------------ *)
\* mutant: no guard against an empty documents list
built_unguarded(docs, db) ==
  from_texts([i \in 1..Len(docs) |-> docs[i].content],
             [i \in 1..Len(docs) |-> docs[i].metadata])

\* mutant: the new chunks are merged into the index that is already there
built_merged(docs, db) ==
  IF docs = <<>> THEN db
  ELSE IF db = None
  THEN from_texts([i \in 1..Len(docs) |-> docs[i].content],
                  [i \in 1..Len(docs) |-> docs[i].metadata])
  ELSE from_texts([i \in 1..Len(db.docstore) |-> db.docstore[i].page_content]
                    \o [i \in 1..Len(docs) |-> docs[i].content],
                  [i \in 1..Len(db.docstore) |-> db.docstore[i].metadata]
                    \o [i \in 1..Len(docs) |-> docs[i].metadata])

\* self.vectordb after build_vector_database
built(docs, db) ==
  IF docs = <<>> THEN db
  ELSE from_texts([i \in 1..Len(docs) |-> docs[i].content],
                  [i \in 1..Len(docs) |-> docs[i].metadata])

build_vector_database ==
  /\ vectordb' = built(documents, vectordb)
  /\ disk' = IF documents # <<>> /\ vector_db_path # NoPath
             THEN saved(vectordb', disk, vector_db_path)
             ELSE disk
  /\ saved_index' = IF documents # <<>> /\ vector_db_path # NoPath
                    THEN setitem(saved_index, vector_db_path, vectordb')
                    ELSE saved_index
  /\ last' = Plain("build_vector_database", <<>>, "none")
  /\ UNCHANGED <<documents, document_metadata, vector_db_path, memory>>

\* mutant: the path is recorded before it is tested
load_vector_database_path_first(path) ==
  /\ UNCHANGED <<documents, document_metadata, memory, disk, saved_index>>
  /\ vector_db_path' = path
  /\ IF path \notin DOMAIN disk
     THEN /\ last' = Plain("load_vector_database", <<path>>, "FileNotFoundError")
          /\ UNCHANGED vectordb
     ELSE /\ vectordb' = load_local(disk[path])
          /\ last' = Plain("load_vector_database", <<path>>, "none")

(* ------------------------- load_vector_database ------------------------ *)
load_vector_database(path) ==
  /\ UNCHANGED <<documents, document_metadata, memory, disk, saved_index>>
  /\ IF path \notin DOMAIN disk
     THEN /\ last' = Plain("load_vector_database", <<path>>, "FileNotFoundError")
          /\ UNCHANGED <<vectordb, vector_db_path>>
     ELSE /\ vectordb' = load_local(disk[path])
          /\ vector_db_path' = path
          /\ last' = Plain("load_vector_database", <<path>>, "none")

(* ---------------------------- answer_question -------------------------- *)
NoInfoAnswer == "I couldn't find relevant information to answer this question."

\* mutant: strict comparison
passes_strict(score, similarity_threshold) == score < similarity_threshold

\* the test of the filter loop
passes(score, similarity_threshold) == score <= similarity_threshold

\* relevant_docs after the filter loop
relevant_docs(docs, similarity_threshold) ==
  LET kept == SelectSeq(docs, LAMBDA d : passes(d[2], similarity_threshold))
  IN [i \in 1..Len(kept) |-> kept[i][1]]

\* mutant: the source is recorded before the threshold test
sources_unfiltered(docs, similarity_threshold) ==
  {get(d[1].metadata, "source", "unknown") : d \in Range(docs)}

\* sources after the filter loop
sources(docs, similarity_threshold) ==
  {get(d[1].metadata, "source", "unknown") :
     d \in {x \in Range(docs) : passes(x[2], similarity_threshold)}}

\* list(sources): the elements of the set once each, in some order
lists_of(S) ==
  {s \in [1..Cardinality(S) -> S] : \A i, j \in DOMAIN s : s[i] = s[j] => i = j}

\* the dictionary returned when no document is relevant
no_relevant_result ==
  [answer |-> NoInfoAnswer, sources |-> <<>>, confidence |-> 0]

\* the dictionary returned after the chain ran
answer_result(answer, srcs, relevant) ==
  [answer |-> answer, sources |-> srcs, num_relevant_chunks |-> Len(relevant),
   total_tokens |-> 0, prompt_tokens |-> 0, completion_tokens |-> 0]

\* mutant: the missing index is reported as an ordinary empty answer
not_built_returns(args) ==
  Outcome("answer_question", args, "none", no_relevant_result, FALSE, <<>>, FALSE, <<>>)

\* `if not self.vectordb`: logged and raised, before anything else is done
not_built(args) == Plain("answer_question", args, "ValueError")

\* mutant: the empty-context test is dropped
short_circuit_never(relevant) == FALSE

\* `if not relevant_docs`
short_circuit(relevant) == relevant = <<>>

\* chain.run ends with an answer, or raises (the language model could not be
\* reached, or the chain failed)
ChainFailed == "chain.run raised"

\* mutant: the memory is not attached to the chain
turn_unsaved(mem, question, answer) == mem

\* self.memory after chain.run returned: the chain saves the turn
turn_saved(mem, question, answer) == Append(mem, <<question, answer>>)

answer_question(question, similarity_threshold, max_docs) ==
  LET args == <<question, similarity_threshold, max_docs>> IN
  /\ UNCHANGED <<documents, document_metadata, vectordb, vector_db_path, disk,
                 saved_index>>
  /\ IF vectordb = None
     THEN /\ last' = not_built(args)
          /\ UNCHANGED memory
     ELSE LET docs == similarity_search_with_score(vectordb, question, max_docs)
              relevant == relevant_docs(docs, similarity_threshold)
          IN IF short_circuit(relevant)
             THEN /\ last' = Outcome("answer_question", args, "none",
                                     no_relevant_result, TRUE, docs, FALSE, <<>>)
                  /\ UNCHANGED memory
             ELSE \E generated \in LLMAnswers \cup {ChainFailed} :
                    IF generated = ChainFailed
                    THEN \* chain.run raised: nothing catches it, no turn is saved
                         /\ last' = Outcome("answer_question", args, "ChainError",
                                            None, TRUE, docs, TRUE, relevant)
                         /\ UNCHANGED memory
                    ELSE /\ Len(memory) < MaxTurns
                         /\ \E srcs \in lists_of(sources(docs, similarity_threshold)) :
                              /\ memory' = turn_saved(memory, question, generated)
                              /\ last' = Outcome("answer_question", args, "none",
                                                 answer_result(generated, srcs, relevant),
                                                 TRUE, docs, TRUE, relevant)

(* ------------------------------ clear_memory --------------------------- *)
\* mutant: clearing the conversation also drops the index
clear_memory_resets ==
  /\ memory' = <<>>
  /\ vectordb' = None
  /\ last' = Plain("clear_memory", <<>>, "none")
  /\ UNCHANGED <<documents, document_metadata, vector_db_path, disk, saved_index>>

clear_memory ==
  /\ memory' = <<>>
  /\ last' = Plain("clear_memory", <<>>, "none")
  /\ UNCHANGED <<documents, document_metadata, vectordb, vector_db_path, disk,
                 saved_index>>

(* ------------------------------- main() -------------------------------- *)
\* main() goes on after a call that returned and ends with the exception of
\* a call that raised.
after_call(next) ==
  /\ pc' = IF last'.raised = "none" THEN next ELSE "crashed"
  /\ uncaught' = last'.raised

\* --pdf / --text / --vector_db, or none of them: sys.exit(1)
main_input ==
  /\ pc = "main"
  /\ \/ \E p \in DocPaths : process_pdf(p) /\ after_call("build")
     \/ \E p \in DocPaths : process_text_file(p) /\ after_call("build")
     \/ \E p \in DbPaths : load_vector_database(p) /\ after_call("save")
     \/ /\ pc' = "exit1"
        /\ last' = Plain("sys.exit", <<>>, "none")
        /\ UNCHANGED <<agent, uncaught>>

main_build ==
  /\ pc = "build"
  /\ build_vector_database
  /\ after_call("save")

\* --save_vector_db, when given
main_save ==
  /\ pc = "save"
  /\ \/ \E p \in SavePaths : save_vector_database(p) /\ after_call("question")
     \/ /\ pc' = "question"
        /\ last' = Plain("no --save_vector_db", <<>>, "none")
        /\ UNCHANGED <<agent, uncaught>>

\* the prints that follow answer_question: result['answer'], result['sources']
\* and result['num_relevant_chunks'] are read
printed(result) ==
  IF {"answer", "sources", "num_relevant_chunks"} \subseteq DOMAIN result
  THEN "none" ELSE "KeyError"

\* main() after result = agent.answer_question(...) and the prints
after_answer(next) ==
  LET raised == IF last'.raised # "none" THEN last'.raised ELSE printed(last'.result)
  IN /\ pc' = IF raised = "none" THEN next ELSE "crashed"
     /\ uncaught' = raised

\* --question: one answer, then main() returns
main_question ==
  /\ pc = "question"
  /\ \E q \in Questions :
       /\ answer_question(q, DefaultThreshold, DefaultMaxDocs)
       /\ after_answer("done")

\* no --question: the interactive loop is entered
main_interactive ==
  /\ pc = "question"
  /\ pc' = "loop_input"
  /\ last' = Plain("no --question", <<>>, "none")
  /\ UNCHANGED <<agent, uncaught>>

ExitTokens == {"exit", "quit", "q"}

\* one pass of `while True`: input, the exit test, answer_question, the prints
main_loop ==
  /\ pc = "loop_input"
  /\ \E user_input \in Inputs :
       IF lower(user_input) \in ExitTokens
       THEN /\ pc' = "done"
            /\ last' = Plain("break", <<user_input>>, "none")
            /\ UNCHANGED <<agent, uncaught>>
       ELSE /\ answer_question(user_input, DefaultThreshold, DefaultMaxDocs)
            /\ after_answer("loop_input")

(* ------------------------------- client -------------------------------- *)
\* a client of the class calls its methods in any order
api(call) == pc = "api" /\ call /\ UNCHANGED <<pc, uncaught>>

(* -------------------------------- Next --------------------------------- *)
Next ==
  \/ \E p \in DocPaths : api(process_pdf(p))
  \/ \E p \in DocPaths : api(process_text_file(p))
  \/ api(build_vector_database)
  \/ \E p \in SavePaths : api(save_vector_database(p))
  \/ \E p \in DbPaths : api(load_vector_database(p))
  \/ \E q \in Questions, th \in Thresholds, k \in MaxDocs : api(answer_question(q, th, k))
  \/ api(clear_memory)
  \/ main_input
  \/ main_build
  \/ main_save
  \/ main_question
  \/ main_interactive
  \/ main_loop

Spec == Init /\ [][Next]_vars

(* ============================== claims ================================= *)
IsAnswer == last.op = "answer_question"
Answered == IsAnswer /\ last.raised = "none"

\* the positions of the search result whose raw score is within the threshold
Within(docs, th) == {i \in 1..Len(docs) : docs[i][2] <= th}

\* C1: with no index built or loaded (vectordb is None), a call of
\* answer_question raises ValueError, searches nothing, does not run the
\* language model, and leaves documents, metadata, index, index path, memory
\* and disk as they were.
C1_NoIndexRaises ==
  [][(vectordb = None /\ last'.op = "answer_question")
       => /\ last'.raised = "ValueError"
          /\ ~last'.searched
          /\ ~last'.llm
          /\ UNCHANGED <<documents, document_metadata, vectordb, vector_db_path,
                         memory, disk>>]_vars

\* C1 witness: a question was refused although documents had been ingested.
C1_Witness ==
  IsAnswer /\ last.raised = "ValueError" /\ vectordb = None /\ documents # <<>>

C3_ThresholdFilter ==
  (IsAnswer /\ last.searched) =>
    LET th == last.args[2]
        docs == last.docs
        rel == last.relevant
        ok == Within(docs, th)
    IN /\ Len(rel) = Cardinality(ok)
       /\ \A j \in 1..Len(rel) : \E i \in ok : docs[i][1] = rel[j]
       /\ \A i \in ok : \E j \in 1..Len(rel) : rel[j] = docs[i][1]
       /\ (last.llm /\ last.raised = "none")
            => last.result.num_relevant_chunks = Cardinality(ok)

\* C3 witness: the language model ran on some of the neighbours while another
\* neighbour was cut off, one kept neighbour lying exactly on the threshold.
C3_Witness ==
  /\ IsAnswer /\ last.llm
  /\ Len(last.relevant) < Len(last.docs)
  /\ \E i \in 1..Len(last.docs) : last.docs[i][2] = last.args[2]

\* C4: when no neighbour passes the threshold the language model is not run
\* and the fixed text with an empty source list is returned; the language
\* model runs only on a non-empty list of passing documents.
C4_EmptyContextShortCircuit ==
  Answered =>
    /\ Within(last.docs, last.args[2]) = {}
         => /\ ~last.llm
            /\ last.result.answer = NoInfoAnswer
            /\ last.result.sources = <<>>
    /\ last.llm => Within(last.docs, last.args[2]) # {}

\* C4 witness: a search returned neighbours and none passed.
C4_Witness ==
  Answered /\ last.docs # <<>> /\ Within(last.docs, last.args[2]) = {}
\* C5 as stated: every chunk of the document store has a unique (source,
\* chunk index) pair, and the chunk indices of each source are exactly
\* 0..n-1, each once.
C5_ProvenanceUnique ==
  /\ \A i, j \in 1..Len(documents) :
       documents[i].metadata = documents[j].metadata => i = j
  /\ \A src \in {documents[i].metadata.source : i \in 1..Len(documents)} :
       LET mine == {i \in 1..Len(documents) : documents[i].metadata.source = src}
       IN {documents[i].metadata.chunk : i \in mine} = 0..(Cardinality(mine) - 1)

\* C6 as stated: an ingestion made while an index exists invalidates the
\* index, so that answer_question is refused until the next build.
C6_IngestInvalidatesIndex ==
  [][(vectordb # None /\ last'.op \in {"process_pdf", "process_text_file"}
        /\ last'.raised = "none")
       => vectordb' = None]_vars

\* C7 as stated: every result answer_question returns carries the count of
\* relevant chunks, equal to the number of chunks that passed the threshold
\* (0 when none passed).
C7_CountInEveryResult ==
  Answered =>
    /\ "num_relevant_chunks" \in DOMAIN last.result
    /\ last.result.num_relevant_chunks =
         Cardinality(Within(last.docs, last.args[2]))

\* C8: the returned source list has no duplicates and holds exactly the
\* source names of the search results that passed the threshold.
C8_SourcesDeduplicated ==
  Answered =>
    LET srcs == last.result.sources
        docs == last.docs
    IN /\ \A i, j \in 1..Len(srcs) : srcs[i] = srcs[j] => i = j
       /\ Range(srcs) =
            {docs[i][1].metadata.source : i \in Within(docs, last.args[2])}

\* C8 witness: two passing chunks share one source, and a chunk of another
\* source was cut off by the threshold.
C8_Witness ==
  /\ Answered
  /\ Len(last.relevant) >= 2
  /\ Len(last.result.sources) = 1
  /\ \E i \in 1..Len(last.docs) :
       /\ last.docs[i][2] > last.args[2]
       /\ last.docs[i][1].metadata.source \notin Range(last.result.sources)

\* C9: clear_memory empties the turn history and leaves the document store,
\* the document metadata, the index, the index path and the disk unchanged
\* (so an index that could be queried before can be queried after).
C9_ClearMemoryFrame ==
  [][last'.op = "clear_memory"
       => /\ memory' = <<>>
          /\ UNCHANGED <<documents, document_metadata, vectordb, vector_db_path,
                         disk>>]_vars

\* C9 witness: the conversation was cleared while an index was in place.
C9_Witness ==
  last.op = "clear_memory" /\ vectordb # None /\ memory = <<>> /\ documents # <<>>

C11_LoopHandlesEveryInput ==
  [][pc = "loop_input" =>
       IF lower(last'.args[1]) \in ExitTokens
       THEN /\ last'.op = "break"
            /\ pc' = "done"
            /\ uncaught' = "none"
            /\ UNCHANGED agent
       ELSE /\ last'.op = "answer_question"
            /\ last'.raised = "none" => pc' = "loop_input"]_vars
\* the index holds one entry per chunk of the store, in the store's order,
\* with the chunk's vector, content and metadata
IndexMatches(db, docs) ==
  /\ Len(db.index) = Len(docs)
  /\ Len(db.docstore) = Len(docs)
  /\ \A i \in 1..Len(docs) :
       /\ db.index[i] = embed(docs[i].content)
       /\ db.docstore[db.index_to_docstore_id[i]] =
            [page_content |-> docs[i].content, metadata |-> docs[i].metadata]

Built == last.op = "build_vector_database" /\ last.raised = "none"

C14_NoEmptyIndex ==
  [][/\ vectordb' # None =>
          Len(vectordb'.index) >= 1 /\ Len(vectordb'.docstore) >= 1
     /\ (last'.op = "build_vector_database" /\ documents = <<>> /\ vectordb = None)
          => vectordb' = None]_vars

\* C14 witness: a document without chunks was ingested along with others, and
\* the build made an index of the chunks there are.
C14_Witness ==
  /\ Built
  /\ "empty.txt" \in DOMAIN document_metadata
  /\ vectordb # None
  /\ Len(vectordb.index) = Len(documents)

\* the chunks a call of process_pdf / process_text_file on this path yields
ChunksOf(path) == split_text(Concat(Files[path].pages))

Ingested ==
  last.op \in {"process_pdf", "process_text_file"} /\ last.raised = "none"

\* C15 as stated: an ingestion whose text yields no chunk does not complete
\* successfully, and no document-metadata entry is left for a document that
\* has no chunk.
C15_EmptyDocumentRejected ==
  /\ Ingested => ChunksOf(last.args[1]) # <<>>
  /\ \A name \in DOMAIN document_metadata :
       \E i \in 1..Len(documents) : documents[i].metadata.source = name

\* C16: process_pdf, process_text_file and load_vector_database on a path
\* that does not exist raise FileNotFoundError and leave the documents, the
\* metadata, the index, the index path, the memory and the disk unchanged.
C16_MissingPathLeavesState ==
  [][(\/ /\ last'.op \in {"process_pdf", "process_text_file"}
         /\ ~path_exists(last'.args[1])
      \/ /\ last'.op = "load_vector_database"
         /\ last'.args[1] \notin DOMAIN disk)
       => /\ last'.raised = "FileNotFoundError"
          /\ ~last'.searched /\ ~last'.llm
          /\ UNCHANGED <<documents, document_metadata, vectordb, vector_db_path,
                         memory, disk>>]_vars

\* C16 witness: a load from a missing directory failed while an index built
\* from ingested documents was in place.
C16_Witness ==
  /\ last.op = "load_vector_database"
  /\ last.raised = "FileNotFoundError"
  /\ vectordb # None
  /\ documents # <<>>

\* C17: every chunk's source name is a key of the metadata map (and is
\* reported by get_document_info); an ingestion adds the entry of its
\* document name or overwrites it, and the map changes in no other way.
C17_ProvenanceIntegrity ==
  [][/\ \A i \in 1..Len(documents') :
          /\ documents'[i].metadata.source \in DOMAIN document_metadata'
          /\ \E n \in DOMAIN get_document_info(document_metadata') :
               get_document_info(document_metadata')[n].name =
                 documents'[i].metadata.source
     /\ IF last'.op \in {"process_pdf", "process_text_file"} /\ last'.raised = "none"
        THEN LET name == basename(last'.args[1]) IN
             /\ DOMAIN document_metadata' = DOMAIN document_metadata \cup {name}
             /\ document_metadata'[name].path = last'.args[1]
             /\ \A other \in DOMAIN document_metadata \ {name} :
                  document_metadata'[other] = document_metadata[other]
        ELSE document_metadata' = document_metadata]_vars

\* C17 witness: the name a.txt was ingested from two places; chunks of both
\* are stored and the one entry of a.txt is that of the second.
C17_Witness ==
  /\ Ingested
  /\ Cardinality({i \in 1..Len(documents) : documents[i].metadata.source = "a.txt"}) = 3
  /\ DOMAIN document_metadata = {"a.txt"}
  /\ document_metadata["a.txt"].path = last.args[1]
====
